---- MODULE Spec2Model ----
(***************************************************************************)
(* AquaData Pro: the feeding-ration calculators, the pond status           *)
(* classifier, the sea-surface-temperature fetch and the dashboard render  *)
(* pipeline (src/aquadata_app.py, src/camaron.py).                         *)
(*                                                                         *)
(* Numbers are exact fixed-point integers:                                 *)
(*   temperature, pH, oxygen   tenths            (26.5 C   -> 265)         *)
(*   feeding rate              millionths        (0.03     -> 30000)       *)
(*   biomass                   units of 4 kg     (5000 kg  -> 1250)        *)
(*   feed mass                 units of 4e-6 kg  (150 kg   -> 37500000)    *)
(*   sacks                     units of 4e-6     (6 sacks  -> 1500000)     *)
(*   sack price                half dollars      (25.00    -> 50)          *)
(*   money                     units of 2e-6 USD (150 USD  -> 75000000)    *)
(* Biomass inputs are multiples of 100 kg (the widget's step), so every    *)
(* division by the 25 kg sack is exact.  Temperatures lie on the 0.1 C     *)
(* grid, so 0.03 * (1 - 0.01 * (t - 28)^2) is an exact number of           *)
(* millionths: 3 * (10000 - d^2) with d = t - 28 in tenths.                *)
(***************************************************************************)
EXTENDS Integers, Sequences, FiniteSets, TLC

VARIABLES
    llamada,              \* a direct call of a function: <<name, arg1, arg2, arg3>>
    retorno,              \* what the call returned (<<>> before it ran)
    impreso,              \* the lines the call printed
    pc,                   \* position of the running script in aquadata_app.py
    sector_nombre,        \* sidebar widget: Sector de Cultivo
    biomasa_usuario,      \* sidebar widget: Biomasa Estimada (kg)
    precio_saco_usuario,  \* sidebar widget: Precio del Saco ($)
    coordenadas,          \* SECTORES[sector_nombre]
    red,                  \* what the network gave the last requests.get
    temp_actual,          \* script variables of section B
    temp_manana,
    api_error,
    estado,               \* (estado_codigo, color_estado, emoji, titulo_estado, desc_estado)
    racion,               \* (alimento_sugerido, ahorro_total, tasa_real)
    desc_manana,
    tasa_mostrada,        \* the rate as printed, in hundredths of a percent
    pantalla              \* the elements rendered so far, in order

vars == <<llamada, retorno, impreso, pc, sector_nombre, biomasa_usuario,
          precio_saco_usuario, coordenadas, red, temp_actual, temp_manana,
          api_error, estado, racion, desc_manana, tasa_mostrada, pantalla>>

varsFunciones == <<llamada, retorno, impreso>>

varsPanel == <<pc, sector_nombre, biomasa_usuario, precio_saco_usuario,
               coordenadas, red, temp_actual, temp_manana, api_error, estado,
               racion, desc_manana, tasa_mostrada, pantalla>>

----------------------------------------------------------------------------
(* Bounds of the input domains. *)

MaxTemp == 310
MaxPH == 88
MaxOxigeno == 54
MaxSstLen == 3

(* Unit conversions. *)
Biomasa(kg) == kg \div 4
Precio(centavos) == centavos \div 50
Kg(decimas) == decimas * 25000
USD(centavos) == centavos * 5000

Temperaturas == (230..MaxTemp) \cup {-500, 180, 200, 1000}
PHs == (72..MaxPH) \cup {90}
Oxigenos == (36..MaxOxigeno) \cup {20}
Biomasas == {Biomasa(-100), Biomasa(0), Biomasa(100), Biomasa(5000)}
Precios == {Precio(-1000), Precio(0), Precio(1000), Precio(2500)}

----------------------------------------------------------------------------
(* src/aquadata_app.py: RationCalculator, continuous model. *)

max(a, b) == IF b > a THEN b ELSE a

tasa_continua_sin_minimo(temp_agua) ==
    3 * (10000 - (temp_agua - 280) * (temp_agua - 280))

tasa_continua_vertice_26(temp_agua) ==
    max(5000, 3 * (10000 - (temp_agua - 260) * (temp_agua - 260)))

(* tasa_optima = 0.03 * (1 - 0.01 * (temp_agua - 28)**2); tasa = max(0.005, tasa_optima) *)
tasa_continua(temp_agua) ==
    LET tasa_optima == 3 * (10000 - (temp_agua - 280) * (temp_agua - 280))
    IN  max(5000, tasa_optima)

calcular_ahorro_resta_invertida(temp_agua, biomasa_kg, precio_saco) ==
    LET tasa == tasa_continua(temp_agua)
        alimento_necesario_kg == biomasa_kg * tasa
        gasto_ciego == ((biomasa_kg * 30000) \div 25) * precio_saco
        costo_optimo == (alimento_necesario_kg \div 25) * precio_saco
        ahorro == costo_optimo - gasto_ciego
    IN  <<alimento_necesario_kg, ahorro, tasa>>

calcular_ahorro(temp_agua, biomasa_kg, precio_saco) ==
    LET tasa == tasa_continua(temp_agua)
        alimento_necesario_kg == biomasa_kg * tasa
        gasto_ciego == ((biomasa_kg * 30000) \div 25) * precio_saco
        costo_optimo == (alimento_necesario_kg \div 25) * precio_saco
        ahorro == gasto_ciego - costo_optimo
    IN  <<alimento_necesario_kg, ahorro, tasa>>

----------------------------------------------------------------------------
(* src/aquadata_app.py: PondStatusClassifier. *)

obtener_estado_camaron_ph_primero(temp, ph, oxigeno) ==
    IF ph < 75 \/ ph > 85
    THEN <<"stressed", "#f59e0b", "anxious_face", "Estresado", "pH desequilibrado">>
    ELSE IF temp < 240 \/ temp > 300
    THEN <<"cold", "#3b82f6", "cold_face", "Temperatura Critica", "Riesgo termico">>
    ELSE IF oxigeno < 40
    THEN <<"suffocating", "#ef4444", "dizzy_face", "Hipoxia", "Oxigeno bajo">>
    ELSE <<"healthy", "#10b981", "shrimp", "Saludable", "Condiciones optimas">>

obtener_estado_camaron_limites_estrictos(temp, ph, oxigeno) ==
    IF temp <= 240 \/ temp >= 300
    THEN <<"cold", "#3b82f6", "cold_face", "Temperatura Critica", "Riesgo termico">>
    ELSE IF ph <= 75 \/ ph >= 85
    THEN <<"stressed", "#f59e0b", "anxious_face", "Estresado", "pH desequilibrado">>
    ELSE IF oxigeno <= 40
    THEN <<"suffocating", "#ef4444", "dizzy_face", "Hipoxia", "Oxigeno bajo">>
    ELSE <<"healthy", "#10b981", "shrimp", "Saludable", "Condiciones optimas">>

obtener_estado_camaron(temp, ph, oxigeno) ==
    IF temp < 240 \/ temp > 300
    THEN <<"cold", "#3b82f6", "cold_face", "Temperatura Critica", "Riesgo termico">>
    ELSE IF ph < 75 \/ ph > 85
    THEN <<"stressed", "#f59e0b", "anxious_face", "Estresado", "pH desequilibrado">>
    ELSE IF oxigeno < 40
    THEN <<"suffocating", "#ef4444", "dizzy_face", "Hipoxia", "Oxigeno bajo">>
    ELSE <<"healthy", "#10b981", "shrimp", "Saludable", "Condiciones optimas">>

----------------------------------------------------------------------------
(* src/camaron.py: RationCalculator, stepped model, and its printed report. *)

tasa_escalonada_26_optimo(temp_agua) ==
    IF temp_agua >= 260 THEN <<30000, "Optimo">>
    ELSE IF 240 <= temp_agua /\ temp_agua <= 260 THEN <<20000, "Precaucion">>
    ELSE <<5000, "Critico (Frio)">>

(* (tasa, estado) of section 1 *)
tasa_escalonada(temp_agua) ==
    IF temp_agua > 260 THEN <<30000, "Optimo">>
    ELSE IF 240 <= temp_agua /\ temp_agua <= 260 THEN <<20000, "Precaucion">>
    ELSE <<5000, "Critico (Frio)">>

(* The locals of calcular_alimentacion_inteligente after section 3:           *)
(* <<tasa, estado, alimento_necesario_kg, sacos_necesarios, costo_dia,        *)
(*   gasto_ciego, ahorro>>                                                    *)
calcular_alimentacion_inteligente(temp_agua, biomasa_kg, precio_saco) ==
    LET te == tasa_escalonada(temp_agua)
        tasa == te[1]
        alimento_necesario_kg == biomasa_kg * tasa
        sacos_necesarios == alimento_necesario_kg \div 25
        costo_dia == sacos_necesarios * precio_saco
        gasto_ciego == ((biomasa_kg * 30000) \div 25) * precio_saco
        ahorro == gasto_ciego - costo_dia
    IN  <<tasa, te[2], alimento_necesario_kg, sacos_necesarios, costo_dia,
          gasto_ciego, ahorro>>

(* Section 4: the lines printed, by their leading words. *)
reporte_alimentacion(locales) ==
    <<"REPORTE DE ALIMENTACION", "Temperatura del Agua", "Biomasa en piscina",
      "---", "Alimento Sugerido", "Costo Hoy">>
    \o (IF locales[7] > 0
        THEN <<"AHORRO GENERADO HOY", "Consejo">>
        ELSE <<"Produccion al maximo">>)

(* camaron.py:50, the call the script itself makes (precio_saco defaults to 25.00) *)
simulacion == <<"calcular_alimentacion_inteligente", 230, Biomasa(5000), Precio(2500)>>

----------------------------------------------------------------------------
(* Direct calls of the three functions. *)

Llamadas ==
    ({"obtener_estado_camaron"} \X Temperaturas \X PHs \X Oxigenos)
    \cup ({"calcular_ahorro", "calcular_alimentacion_inteligente"}
          \X Temperaturas \X Biomasas \X Precios)

Ejecutar_obtener_estado_camaron ==
    /\ llamada[1] = "obtener_estado_camaron"
    /\ retorno = <<>>
    /\ retorno' = obtener_estado_camaron(llamada[2], llamada[3], llamada[4])
    /\ UNCHANGED <<llamada, impreso>>
    /\ UNCHANGED varsPanel

Ejecutar_calcular_ahorro ==
    /\ llamada[1] = "calcular_ahorro"
    /\ retorno = <<>>
    /\ retorno' = calcular_ahorro(llamada[2], llamada[3], llamada[4])
    /\ UNCHANGED <<llamada, impreso>>
    /\ UNCHANGED varsPanel

Ejecutar_calcular_alimentacion_inteligente ==
    /\ llamada[1] = "calcular_alimentacion_inteligente"
    /\ retorno = <<>>
    /\ retorno' = calcular_alimentacion_inteligente(llamada[2], llamada[3], llamada[4])
    /\ impreso' = reporte_alimentacion(retorno')
    /\ UNCHANGED llamada
    /\ UNCHANGED varsPanel

----------------------------------------------------------------------------
(* src/aquadata_app.py: the weather collaborator. *)

(* Python values of the script: a float, or None (a JSON null). *)
Float(decimas) == [tipo |-> "float", val |-> decimas]
None == [tipo |-> "None", val |-> 0]
SinAsignar == [tipo |-> "sin asignar", val |-> 0]
EsNumero(v) == v.tipo = "float"

(* The sst_max values the marine API may send: a temperature or null. *)
SstMuestras == {180, 230, 260, 265, 310}
Entradas == {Float(t) : t \in SstMuestras} \cup {None}

RECURSIVE Listas(_)
Listas(n) ==
    IF n = 0 THEN {<<>>}
    ELSE Listas(n - 1)
         \cup {Append(l, e) : l \in {x \in Listas(n - 1) : Len(x) = n - 1}, e \in Entradas}

(* What requests.get(URL).json() can do: raise (no connection, timeout), *)
(* raise on a body that is not JSON, or give a JSON document.            *)
Respuestas ==
    {[tipo |-> t, sst_max |-> <<>>] :
        t \in {"error de red", "no es JSON", "sin daily", "sin sst_max"}}
    \cup {[tipo |-> "json", sst_max |-> l] : l \in Listas(MaxSstLen)}

Fallback == <<Float(260), Float(265), TRUE>>

obtener_temp_real_fallback_crisis(respuesta) ==
    IF respuesta.tipo # "json" \/ Len(respuesta.sst_max) < 2
    THEN <<Float(230), Float(235), TRUE>>
    ELSE <<respuesta.sst_max[Len(respuesta.sst_max) - 1],
           respuesta.sst_max[Len(respuesta.sst_max)], FALSE>>

(* try: respuesta['daily']['sst_max'][-2], [-1]; except Exception: fallback *)
obtener_temp_real(respuesta) ==
    IF respuesta.tipo \in {"error de red", "no es JSON"} THEN Fallback
    ELSE IF respuesta.tipo \in {"sin daily", "sin sst_max"} THEN Fallback   \* KeyError
    ELSE IF Len(respuesta.sst_max) < 2 THEN Fallback                        \* IndexError
    ELSE <<respuesta.sst_max[Len(respuesta.sst_max) - 1],
           respuesta.sst_max[Len(respuesta.sst_max)], FALSE>>

----------------------------------------------------------------------------
(* src/aquadata_app.py: the script, run top to bottom on every render. *)

SECTORES ==
    [s \in {"Isla Puna (Golfo)", "Naranjal (Estero)", "Churute (Interior)",
            "Playas (Mar Abierto)", "Puerto Bolivar (El Oro)",
            "Golfo de Guayaquil (Centro)"} |->
        CASE s = "Isla Puna (Golfo)" -> [lat |-> -268, lon |-> -8000]
          [] s = "Naranjal (Estero)" -> [lat |-> -276, lon |-> -7960]
          [] s = "Churute (Interior)" -> [lat |-> -231, lon |-> -7966]
          [] s = "Playas (Mar Abierto)" -> [lat |-> -265, lon |-> -8045]
          [] s = "Puerto Bolivar (El Oro)" -> [lat |-> -327, lon |-> -8003]
          [] s = "Golfo de Guayaquil (Centro)" -> [lat |-> -275, lon |-> -8050]]

(* The values the two number_input widgets can hold in the model. *)
BiomasasUsuario == {Biomasa(100), Biomasa(5000)}
PreciosUsuario == {Precio(1000), Precio(2500)}

ph_actual == 78
ox_actual == 52

(* f"{tasa_real*100:.2f}": the rate rounded to hundredths of a percent *)
porcentaje_2f(tasa) == (tasa + 50) \div 100

InitPanel ==
    /\ pc = "sidebar"
    /\ sector_nombre = "Isla Puna (Golfo)"
    /\ biomasa_usuario = Biomasa(5000)
    /\ precio_saco_usuario = Precio(2500)
    /\ coordenadas = [lat |-> 0, lon |-> 0]
    /\ red = [tipo |-> "sin peticion", sst_max |-> <<>>]
    /\ temp_actual = SinAsignar
    /\ temp_manana = SinAsignar
    /\ api_error = FALSE
    /\ estado = <<>>
    /\ racion = <<>>
    /\ desc_manana = ""
    /\ tasa_mostrada = 0
    /\ pantalla = <<>>

(* A. the sidebar *)
Sidebar ==
    /\ pc = "sidebar"
    /\ coordenadas' = SECTORES[sector_nombre]
    /\ pantalla' = Append(pantalla, "sidebar")
    /\ pc' = "datos"
    /\ UNCHANGED <<sector_nombre, biomasa_usuario, precio_saco_usuario, red,
                   temp_actual, temp_manana, api_error, estado, racion,
                   desc_manana, tasa_mostrada>>
    /\ UNCHANGED varsFunciones

(* B. temp_actual, temp_manana, api_error = obtener_temp_real(lat, lon) *)
ObtenerDatos ==
    /\ pc = "datos"
    /\ \E respuesta \in Respuestas :
          /\ red' = respuesta
          /\ LET r == obtener_temp_real(respuesta)
             IN  /\ temp_actual' = r[1]
                 /\ temp_manana' = r[2]
                 /\ api_error' = r[3]
    /\ pc' = "estado"
    /\ UNCHANGED <<sector_nombre, biomasa_usuario, precio_saco_usuario,
                   coordenadas, estado, racion, desc_manana, tasa_mostrada,
                   pantalla>>
    /\ UNCHANGED varsFunciones

LogicaEstado_oxigeno_historico ==
    /\ pc = "estado"
    /\ IF EsNumero(temp_actual)
       THEN /\ estado' = obtener_estado_camaron(temp_actual.val, ph_actual, 35)
            /\ pc' = "ahorro"
       ELSE /\ estado' = estado
            /\ pc' = "excepcion"
    /\ UNCHANGED <<sector_nombre, biomasa_usuario, precio_saco_usuario,
                   coordenadas, red, temp_actual, temp_manana, api_error,
                   racion, desc_manana, tasa_mostrada, pantalla>>
    /\ UNCHANGED varsFunciones

(* C. line 181: None < 24 raises TypeError, which nothing catches *)
LogicaEstado ==
    /\ pc = "estado"
    /\ IF EsNumero(temp_actual)
       THEN /\ estado' = obtener_estado_camaron(temp_actual.val, ph_actual, ox_actual)
            /\ pc' = "ahorro"
       ELSE /\ estado' = estado
            /\ pc' = "excepcion"
    /\ UNCHANGED <<sector_nombre, biomasa_usuario, precio_saco_usuario,
                   coordenadas, red, temp_actual, temp_manana, api_error,
                   racion, desc_manana, tasa_mostrada, pantalla>>
    /\ UNCHANGED varsFunciones

(* C. line 182 *)
LogicaAhorro ==
    /\ pc = "ahorro"
    /\ racion' = calcular_ahorro(temp_actual.val, biomasa_usuario, precio_saco_usuario)
    /\ pc' = "estilos"
    /\ UNCHANGED <<sector_nombre, biomasa_usuario, precio_saco_usuario,
                   coordenadas, red, temp_actual, temp_manana, api_error,
                   estado, desc_manana, tasa_mostrada, pantalla>>
    /\ UNCHANGED varsFunciones

(* D. aplicar_estilos, and the title of section 5 *)
AplicarEstilos ==
    /\ pc = "estilos"
    /\ pantalla' = pantalla \o <<"estilos", "titulo">>
    /\ pc' = "alerta"
    /\ UNCHANGED <<sector_nombre, biomasa_usuario, precio_saco_usuario,
                   coordenadas, red, temp_actual, temp_manana, api_error,
                   estado, racion, desc_manana, tasa_mostrada>>
    /\ UNCHANGED varsFunciones

AlertaSistema_siempre ==
    /\ pc = "alerta"
    /\ pantalla' = Append(pantalla, "alerta de sistema")
    /\ pc' = "tarjeta"
    /\ UNCHANGED <<sector_nombre, biomasa_usuario, precio_saco_usuario,
                   coordenadas, red, temp_actual, temp_manana, api_error,
                   estado, racion, desc_manana, tasa_mostrada>>
    /\ UNCHANGED varsFunciones

(* ALERTA DE SISTEMA: if api_error: st.warning(...) *)
AlertaSistema ==
    /\ pc = "alerta"
    /\ pantalla' = IF api_error THEN Append(pantalla, "alerta de sistema")
                   ELSE pantalla
    /\ pc' = "tarjeta"
    /\ UNCHANGED <<sector_nombre, biomasa_usuario, precio_saco_usuario,
                   coordenadas, red, temp_actual, temp_manana, api_error,
                   estado, racion, desc_manana, tasa_mostrada>>
    /\ UNCHANGED varsFunciones

(* TARJETA PRINCIPAL DEL CAMARON *)
TarjetaPrincipal ==
    /\ pc = "tarjeta"
    /\ pantalla' = Append(pantalla, "tarjeta")
    /\ pc' = "panel"
    /\ UNCHANGED <<sector_nombre, biomasa_usuario, precio_saco_usuario,
                   coordenadas, red, temp_actual, temp_manana, api_error,
                   estado, racion, desc_manana, tasa_mostrada>>
    /\ UNCHANGED varsFunciones

(* PANEL DE SOLUCIONES *)
PanelSoluciones ==
    /\ pc = "panel"
    /\ pantalla' =
          IF estado[1] # "healthy"
          THEN pantalla \o <<"Acciones Recomendadas">>
               \o (IF estado[1] = "cold" THEN <<"Recomendacion de Alimento">>
                   ELSE IF estado[1] = "suffocating" THEN <<"PELIGRO CRITICO">>
                   ELSE IF estado[1] = "stressed" THEN <<"Alerta de pH">>
                   ELSE <<>>)
          ELSE pantalla
    /\ tasa_mostrada' = IF estado[1] = "cold" THEN porcentaje_2f(racion[3])
                        ELSE tasa_mostrada
    /\ pc' = "metricas"
    /\ UNCHANGED <<sector_nombre, biomasa_usuario, precio_saco_usuario,
                   coordenadas, red, temp_actual, temp_manana, api_error,
                   estado, racion, desc_manana>>
    /\ UNCHANGED varsFunciones

(* GRID DE METRICAS: c1 computes temp_manana - temp_actual and c2 classifies *)
(* temp_manana; either raises TypeError on None                             *)
GridMetricas ==
    /\ pc = "metricas"
    /\ IF EsNumero(temp_manana)
       THEN /\ desc_manana' = obtener_estado_camaron(temp_manana.val, ph_actual, ox_actual)[5]
            /\ tasa_mostrada' = porcentaje_2f(racion[3])
            /\ pantalla' = pantalla \o <<"Indicadores Clave", "Hoy (Actual)",
                                         "Manana (Prediccion)", "Racion Sugerida",
                                         "Ahorro Estimado Hoy">>
            /\ pc' = "grafico"
       ELSE /\ pantalla' = Append(pantalla, "Indicadores Clave")
            /\ pc' = "excepcion"
            /\ UNCHANGED <<desc_manana, tasa_mostrada>>
    /\ UNCHANGED <<sector_nombre, biomasa_usuario, precio_saco_usuario,
                   coordenadas, red, temp_actual, temp_manana, api_error,
                   estado, racion>>
    /\ UNCHANGED varsFunciones

(* 6. GRAFICO DE TENDENCIA *)
GraficoTendencia ==
    /\ pc = "grafico"
    /\ pantalla' = Append(pantalla, "grafico")
    /\ pc' = "barra"
    /\ UNCHANGED <<sector_nombre, biomasa_usuario, precio_saco_usuario,
                   coordenadas, red, temp_actual, temp_manana, api_error,
                   estado, racion, desc_manana, tasa_mostrada>>
    /\ UNCHANGED varsFunciones

(* 7. BARRA DE ESTADO INFERIOR, and the report expander that ends the script *)
BarraEstado ==
    /\ pc = "barra"
    /\ pantalla' = pantalla \o <<"barra de estado", "reporte">>
    /\ pc' = "fin"
    /\ UNCHANGED <<sector_nombre, biomasa_usuario, precio_saco_usuario,
                   coordenadas, red, temp_actual, temp_manana, api_error,
                   estado, racion, desc_manana, tasa_mostrada>>
    /\ UNCHANGED varsFunciones

(* The user changes a sidebar widget: Streamlit runs the script again from *)
(* the top, with fresh script variables and an empty page.                 *)
Interaccion ==
    /\ pc \in {"fin", "excepcion"}
    /\ sector_nombre' \in DOMAIN SECTORES
    /\ biomasa_usuario' \in BiomasasUsuario
    /\ precio_saco_usuario' \in PreciosUsuario
    /\ pc' = "sidebar"
    /\ coordenadas' = [lat |-> 0, lon |-> 0]
    /\ red' = [tipo |-> "sin peticion", sst_max |-> <<>>]
    /\ temp_actual' = SinAsignar
    /\ temp_manana' = SinAsignar
    /\ api_error' = FALSE
    /\ estado' = <<>>
    /\ racion' = <<>>
    /\ desc_manana' = ""
    /\ tasa_mostrada' = 0
    /\ pantalla' = <<>>
    /\ UNCHANGED varsFunciones

Paso ==
    \/ Sidebar
    \/ ObtenerDatos
    \/ LogicaEstado
    \/ LogicaAhorro
    \/ AplicarEstilos
    \/ AlertaSistema
    \/ TarjetaPrincipal
    \/ PanelSoluciones
    \/ GridMetricas
    \/ GraficoTendencia
    \/ BarraEstado

----------------------------------------------------------------------------
(* Specifications. *)

(* The dashboard: renders of aquadata_app.py. *)
Init ==
    /\ InitPanel
    /\ llamada = <<>>
    /\ retorno = <<>>
    /\ impreso = <<>>

Next == Paso \/ Interaccion

Spec == Init /\ [][Next]_vars

(* The three functions, each called directly on every input of its domain. *)
InitFunciones ==
    /\ InitPanel
    /\ llamada \in Llamadas
    /\ retorno = <<>>
    /\ impreso = <<>>

NextFunciones ==
    \/ Ejecutar_obtener_estado_camaron
    \/ Ejecutar_calcular_ahorro
    \/ Ejecutar_calcular_alimentacion_inteligente

SpecFunciones == InitFunciones /\ [][NextFunciones]_vars

----------------------------------------------------------------------------
(* Properties of the pond status classifier (under SpecFunciones). *)

EstadoEjecutado ==
    /\ Len(llamada) = 4
    /\ llamada[1] = "obtener_estado_camaron"
    /\ retorno # <<>>

(* C1: obtener_estado_camaron reports only the first matching rule: a      *)
(* temperature below 24 or above 30 gives 'cold' whatever pH and oxygen    *)
(* are; with the temperature in [24, 30], a pH below 7.5 or above 8.5      *)
(* gives 'stressed' whatever the oxygen is; 'suffocating' is returned only *)
(* with temperature and pH in range and oxygen below 4; so                 *)
(* classify(20, 9.0, 2.0) is 'cold'.                                       *)
C1_PrimeraReglaGana ==
    EstadoEjecutado =>
        LET temp == llamada[2]
            ph == llamada[3]
            oxigeno == llamada[4]
            codigo == retorno[1]
        IN  /\ (temp < 240 \/ temp > 300) => codigo = "cold"
            /\ (240 <= temp /\ temp <= 300 /\ (ph < 75 \/ ph > 85))
                  => codigo = "stressed"
            /\ codigo = "suffocating"
                  => /\ 240 <= temp /\ temp <= 300
                     /\ 75 <= ph /\ ph <= 85
                     /\ oxigeno < 40
            /\ (temp = 200 /\ ph = 90 /\ oxigeno = 20) => codigo = "cold"

C1_Testigo ==
    /\ EstadoEjecutado
    /\ llamada = <<"obtener_estado_camaron", 200, 90, 20>>
    /\ retorno[1] = "cold"

----------------------------------------------------------------------------
(* Properties of the continuous ration model (under SpecFunciones). *)

AhorroEjecutado ==
    /\ Len(llamada) = 4
    /\ llamada[1] = "calcular_ahorro"
    /\ retorno # <<>>

(* C5: the rate calcular_ahorro returns is never below 0.005: it is the    *)
(* parabola 0.03 * (1 - 0.01 * (temp - 28)^2) where that is at least       *)
(* 0.005 (that is, (temp - 28)^2 <= 83.33) and exactly 0.005 elsewhere,    *)
(* as at 100 and at -50; the feed mass returned is biomass * rate.         *)
C5_TasaNuncaBajoMinimo ==
    AhorroEjecutado =>
        LET temp == llamada[2]
            d2 == (temp - 280) * (temp - 280)
            alimento == retorno[1]
            tasa == retorno[3]
        IN  /\ tasa >= 5000
            /\ tasa = IF d2 > 8333 THEN 5000 ELSE 30000 - 3 * d2
            /\ temp \in {1000, -500} => tasa = 5000
            /\ alimento = llamada[3] * tasa

C5_Testigo ==
    /\ AhorroEjecutado
    /\ llamada = <<"calcular_ahorro", 1000, Biomasa(5000), Precio(2500)>>
    /\ retorno[3] = 5000
    /\ retorno[1] = Kg(250)

(* C6: at temperature 28 the rate is exactly 0.03, the feed needed is      *)
(* biomass * 0.03 (150 kg for 5000 kg) and the savings are exactly 0, for  *)
(* every biomass and sack price.                                           *)
C6_Vertice28 ==
    (AhorroEjecutado /\ llamada[2] = 280) =>
        /\ retorno[3] = 30000
        /\ retorno[1] = llamada[3] * 30000
        /\ llamada[3] = Biomasa(5000) => retorno[1] = Kg(1500)
        /\ retorno[2] = 0

C6_Testigo ==
    /\ AhorroEjecutado
    /\ llamada = <<"calcular_ahorro", 280, Biomasa(5000), Precio(2500)>>
    /\ retorno = <<Kg(1500), 0, 30000>>

----------------------------------------------------------------------------
(* Properties of the stepped ration model (under SpecFunciones). *)

AlimentacionEjecutada ==
    /\ Len(llamada) = 4
    /\ llamada[1] = "calcular_alimentacion_inteligente"
    /\ retorno # <<>>

Impresa(linea) == \E i \in 1..Len(impreso) : impreso[i] = linea

(* C8: the stepped model's rate is 0.03 above 26, 0.02 from 24 to 26 and   *)
(* 0.005 otherwise; the cost is (biomass * rate / 25) * price and the      *)
(* savings are (biomass * 0.03 / 25) * price minus the cost; for           *)
(* (23, 5000, 25) that is rate 0.005, feed 25 kg, cost 25, blind cost 150, *)
(* savings 125; the savings line is printed exactly when the savings are   *)
(* positive, and the 'Produccion al maximo' line otherwise.                *)
C8_ModeloEscalonado ==
    AlimentacionEjecutada =>
        LET temp == llamada[2]
            biomasa_kg == llamada[3]
            precio_saco == llamada[4]
            tasa == retorno[1]
            costo_dia == retorno[5]
            ahorro == retorno[7]
        IN  /\ temp > 260 => tasa = 30000
            /\ (240 <= temp /\ temp <= 260) => tasa = 20000
            /\ temp < 240 => tasa = 5000
            /\ retorno[3] = biomasa_kg * tasa
            /\ costo_dia * 25 = biomasa_kg * tasa * precio_saco
            /\ (ahorro + costo_dia) * 25 = biomasa_kg * 30000 * precio_saco
            /\ llamada = simulacion
                  => /\ tasa = 5000
                     /\ retorno[3] = Kg(250)
                     /\ costo_dia = USD(2500)
                     /\ retorno[6] = USD(15000)
                     /\ ahorro = USD(12500)
            /\ Impresa("AHORRO GENERADO HOY") <=> ahorro > 0
            /\ Impresa("Produccion al maximo") <=> ~(ahorro > 0)

C8_Testigo ==
    /\ AlimentacionEjecutada
    /\ llamada = <<"calcular_alimentacion_inteligente", 230, Biomasa(5000), Precio(2500)>>
    /\ retorno[7] = USD(12500)
    /\ Impresa("AHORRO GENERADO HOY")

----------------------------------------------------------------------------
(* Properties of the weather fetch and of the render (under Spec). *)

Mostrado(elemento) == \E i \in 1..Len(pantalla) : pantalla[i] = elemento

Posicion(elemento) == CHOOSE i \in 1..Len(pantalla) : pantalla[i] = elemento

DatosObtenidos == pc \notin {"sidebar", "datos"}

FalloDeRed ==
    \/ red.tipo \in {"error de red", "no es JSON", "sin daily", "sin sst_max"}
    \/ red.tipo = "json" /\ Len(red.sst_max) < 2

(* C3: on any failure of the fetch (request error, non-JSON body, missing  *)
(* 'daily' or 'sst_max', fewer than two sst_max entries) obtener_temp_real *)
(* returns exactly (26.0, 26.5, True) and the script goes on; the flag is  *)
(* False only when the last two entries of sst_max are returned.           *)
C3_FallbackEnFallo ==
    DatosObtenidos =>
        /\ FalloDeRed
              => /\ temp_actual = [tipo |-> "float", val |-> 260]
                 /\ temp_manana = [tipo |-> "float", val |-> 265]
                 /\ api_error = TRUE
                 /\ pc # "excepcion"
        /\ api_error = FALSE
              => /\ red.tipo = "json"
                 /\ Len(red.sst_max) >= 2
                 /\ temp_actual = red.sst_max[Len(red.sst_max) - 1]
                 /\ temp_manana = red.sst_max[Len(red.sst_max)]

C3_Testigo ==
    /\ pc = "estado"
    /\ red.tipo = "json"
    /\ Len(red.sst_max) = 1
    /\ api_error
    /\ temp_actual = Float(260)
    /\ temp_manana = Float(265)

(* C4: in every outcome of obtener_temp_real, null sst_max entries         *)
(* included, both temperatures returned are numbers, so the steps that     *)
(* follow never raise and the render reaches its end.                      *)
C4_TemperaturasNumericas ==
    DatosObtenidos =>
        /\ EsNumero(temp_actual)
        /\ EsNumero(temp_manana)
        /\ pc # "excepcion"

(* C9: whenever the water temperature is below 24 C, the feeding rate used *)
(* for the suggested ration and shown to the user is the minimum 0.5%.     *)
C9_TasaMinimaEnFrio ==
    (racion # <<>> /\ temp_actual.val < 240) =>
        /\ racion[3] = 5000
        /\ racion[1] = biomasa_usuario * 5000
        /\ Mostrado("Racion Sugerida") => tasa_mostrada = 50

AlertaPasada == pc = "tarjeta" \/ Mostrado("tarjeta")

(* C10: in every render the system advisory banner is shown exactly when   *)
(* the fetch fell back; the banner does not stop the render: the status    *)
(* card, the metrics, the chart and the status bar follow it; and the      *)
(* fallback temperatures go through the same classification and ration     *)
(* steps as fetched ones.                                                  *)
C10_AlertaNoBloquea ==
    /\ Mostrado("alerta de sistema") => api_error
    /\ (AlertaPasada \/ pc \in {"fin", "excepcion"})
          => (Mostrado("alerta de sistema") <=> api_error)
    /\ Mostrado("alerta de sistema")
          => /\ pc # "excepcion"
             /\ pc # "fin" => ENABLED Paso
             /\ pc = "fin"
                   => /\ Mostrado("tarjeta") /\ Mostrado("Racion Sugerida")
                      /\ Mostrado("grafico") /\ Mostrado("barra de estado")
                      /\ Posicion("alerta de sistema") < Posicion("tarjeta")
                      /\ Posicion("tarjeta") < Posicion("Racion Sugerida")
                      /\ Posicion("Racion Sugerida") < Posicion("grafico")
                      /\ Posicion("grafico") < Posicion("barra de estado")
    /\ racion # <<>>
          => /\ estado = obtener_estado_camaron(temp_actual.val, ph_actual, ox_actual)
             /\ racion = calcular_ahorro(temp_actual.val, biomasa_usuario,
                                         precio_saco_usuario)
    /\ (api_error /\ racion # <<>>)
          => /\ estado[1] = "healthy"
             /\ racion[3] = 28800

C10_Testigo ==
    /\ pc = "fin"
    /\ api_error
    /\ Mostrado("alerta de sistema")
    /\ Mostrado("barra de estado")

(* C11: the pipeline fixes pH at 7.8 and dissolved oxygen at 5.2, so after  *)
(* any sequence of renders, with fetched or fallback temperatures, the     *)
(* status code is only ever 'cold' or 'healthy'; the hypoxia and pH-alert  *)
(* branches of the recommended-actions panel are never displayed; and on   *)
(* the fallback (26.0, 26.5) the status is 'healthy' today and tomorrow.   *)
C11_SoloFrioOSaludable ==
    /\ estado # <<>> => estado[1] \in {"cold", "healthy"}
    /\ ~Mostrado("PELIGRO CRITICO")
    /\ ~Mostrado("Alerta de pH")
    /\ desc_manana \in {"", "Riesgo termico", "Condiciones optimas"}
    /\ (api_error /\ estado # <<>>)
          => /\ estado[1] = "healthy"
             /\ ~Mostrado("Acciones Recomendadas")
    /\ (api_error /\ Mostrado("Manana (Prediccion)"))
          => desc_manana = "Condiciones optimas"

C11_Testigo ==
    /\ pc = "fin"
    /\ api_error
    /\ temp_actual = Float(260)
    /\ temp_manana = Float(265)
    /\ estado[1] = "healthy"
    /\ desc_manana = "Condiciones optimas"

====
